---- MODULE Spec2Model ----
(***************************************************************************)
(* Model of the track repository (src/src/utils/db.ts) and of the HTTP     *)
(* handlers that drive it (src/src/controllers/tracks.controller.ts).      *)
(*                                                                         *)
(* Representation.  A JavaScript string is a sequence of tokens (TLA+      *)
(* strings): a title is its sequence of characters, a file name is its     *)
(* stem followed by its extension token.  A JavaScript object is a         *)
(* function from its own keys to values; a key may be present with the     *)
(* value Undefined.  A timestamp is its millisecond value: toISOString is  *)
(* injective and order preserving on it, so the ISO text is not modelled.  *)
(* A directory is a function from file names to file contents; the genre  *)
(* file is the sequence of its contents, empty while the file is absent.   *)
(* disk is the condition of the storage device.  tasks are the calls in    *)
(* flight when calls overlap, each with the place it has reached.          *)
(***************************************************************************)
EXTENDS Integers, Sequences, FiniteSets, TLC

VARIABLES tracksDir, uploadsDir, genresFile, disk, tasks, clock, call, ret, log, ops

vars ==
  <<tracksDir, uploadsDir, genresFile, disk, tasks, clock, call, ret, log, ops>>

(***************************************************************************)
(* Bounds                                                                  *)
(***************************************************************************)
\* Date.now() takes the values 1..MaxClock
MaxClock == 2

\* a behaviour of Spec issues at most MaxOps operations
MaxOps == 4

\* the stores of SpecList hold at most MaxTracks records
MaxTracks == 3

\* deleteMultipleTracks is called with at most MaxBatch ids
MaxBatch == 2

\* at most MaxTasks calls overlap
MaxTasks == 2

\* the directory listing covers the names of every record of either bound
MaxListed == IF MaxClock > MaxTracks THEN MaxClock ELSE MaxTracks

(***************************************************************************)
(* Program constants                                                       *)
(***************************************************************************)
\* params.limit || 10
DefaultLimit == 10

(***************************************************************************)
(* JavaScript values                                                       *)
(***************************************************************************)
Undefined == <<"#undefined">>

Null == [null |-> TRUE]

\* the members of Track declared with `?:`
OptionalFields == {"album", "coverImage", "audioFile"}

TrackFields ==
  {"id", "title", "artist", "album", "genres", "slug", "coverImage",
   "audioFile", "createdAt", "updatedAt"}

\* !v for a string-typed v
Falsy(v) == v = Undefined \/ v = <<>>

\* o[k] in JavaScript: undefined when o has no own key k
Get(o, k) == IF k \in DOMAIN o THEN o[k] ELSE Undefined

\* the keys of o that hold a value
Present(o) == {k \in DOMAIN o : ~(k \in OptionalFields /\ o[k] = Undefined)}

\* { ...a, ...b }
Spread(a, b) ==
  [k \in DOMAIN a \cup DOMAIN b |-> IF k \in DOMAIN b THEN b[k] ELSE a[k]]

\* JSON.stringify(o, null, 2): members whose value is undefined are left out
JSONstringify(o) == [k \in Present(o) |-> o[k]]

\* the content of a record file that JSON.parse rejects
Garbled == [garbled |-> TRUE]

\* the content of a genre file that JSON.parse rejects
GarbledList == <<"#garbled">>

\* the outcome of a call whose promise is rejected
Thrown == [thrown |-> "Error"]

\* the outcome of a call whose Promise<void> is fulfilled
Done == [done |-> TRUE]

\* JSON.parse(text) of a well-formed document: an object with exactly the
\* members of the document
JSONparse(text) == [k \in DOMAIN text |-> text[k]]

(***************************************************************************)
(* File system                                                             *)
(***************************************************************************)
\* fs.writeFile: creates the file or replaces its content
writeFile(dir, name, content) ==
  [n \in DOMAIN dir \cup {name} |-> IF n = name THEN content ELSE dir[n]]

\* fs.unlink of an existing file (on a missing file it throws ENOENT; the
\* callers test Exists first)
unlink(dir, name) == [n \in DOMAIN dir \ {name} |-> dir[n]]

Exists(dir, name) == name \in DOMAIN dir

\* path.join(TRACKS_DIR, `${id}.json`)
TrackPath(id) == id \o <<".json">>

\* the extensions that upload names carry
Exts == {".mp3", ".wav"}

\* path.extname(fileName): the last extension of the name, '' when none
extname(fileName) ==
  IF Len(fileName) > 1 /\ fileName[Len(fileName)] \in Exts
    THEN <<fileName[Len(fileName)]>>
    ELSE <<>>

(***************************************************************************)
(* Repository operations, as functions of the storage they read.  Each     *)
(* yields the storage it leaves, its return value and what it logged.      *)
(***************************************************************************)
\* a missing file and an unparsable one both end in the catch
getTrackById(td, id) ==
  IF Exists(td, TrackPath(id)) /\ td[TrackPath(id)] # Garbled
    THEN JSONparse(td[TrackPath(id)])
    ELSE Null

\* a createTrack that persists the draft and the id without the timestamps
createTrack_DropsTimestamps(td, track, now) ==
  LET id == <<ToString(now)>>
      newTrack == Spread(track, [id |-> id, createdAt |-> now, updatedAt |-> now])
  IN  [td  |-> writeFile(td, TrackPath(id), JSONstringify(Spread(track, [id |-> id]))),
       ret |-> newTrack]

\* Date.now() and new Date() are read at the same instant now
createTrack(td, track, now) ==
  LET id == <<ToString(now)>>
      newTrack == Spread(track, [id |-> id, createdAt |-> now, updatedAt |-> now])
  IN  [td  |-> writeFile(td, TrackPath(id), JSONstringify(newTrack)),
       ret |-> newTrack]

\* an updateTrack that writes the supplied fields without the old record
updateTrack_Replaces(td, id, updates, now) ==
  LET track == getTrackById(td, id) IN
  IF track = Null
    THEN [td |-> td, ret |-> Null]
    ELSE LET updatedTrack ==
               Spread(Spread([id |-> track.id, createdAt |-> track.createdAt], updates),
                      [updatedAt |-> now])
         IN  [td  |-> writeFile(td, TrackPath(id), JSONstringify(updatedTrack)),
              ret |-> updatedTrack]

updateTrack(td, id, updates, now) ==
  LET track == getTrackById(td, id) IN
  IF track = Null
    THEN [td |-> td, ret |-> Null]
    ELSE LET updatedTrack == Spread(Spread(track, updates), [updatedAt |-> now])
         IN  [td  |-> writeFile(td, TrackPath(id), JSONstringify(updatedTrack)),
              ret |-> updatedTrack]

\* a deleteTrack that removes the asset and leaves the record file
deleteTrack_KeepsRecord(td, ud, id) ==
  LET track == getTrackById(td, id) IN
  IF track = Null
    THEN [td |-> td, ud |-> ud, ret |-> FALSE, log |-> <<>>]
    ELSE LET audio == Get(track, "audioFile") IN
         IF ~Falsy(audio) /\ Exists(ud, audio)
           THEN [td |-> td, ud |-> unlink(ud, audio), ret |-> TRUE, log |-> <<>>]
           ELSE [td |-> td, ud |-> ud, ret |-> TRUE, log |-> <<>>]

\* a deleteTrack without the inner try: a failed removal of the asset
\* reaches the outer catch
deleteTrack_AssetFailureFails(td, ud, id) ==
  LET track == getTrackById(td, id) IN
  IF track = Null
    THEN [td |-> td, ud |-> ud, ret |-> FALSE, log |-> <<>>]
    ELSE LET audio == Get(track, "audioFile") IN
         IF Falsy(audio)
           THEN [td |-> unlink(td, TrackPath(id)), ud |-> ud,
                 ret |-> TRUE, log |-> <<>>]
           ELSE IF Exists(ud, audio)
             THEN [td |-> unlink(td, TrackPath(id)), ud |-> unlink(ud, audio),
                   ret |-> TRUE, log |-> <<>>]
             ELSE [td |-> unlink(td, TrackPath(id)), ud |-> ud,
                   ret |-> FALSE, log |-> <<"Failed to delete track">>]

deleteTrack(td, ud, id) ==
  LET track == getTrackById(td, id) IN
  IF track = Null
    THEN [td |-> td, ud |-> ud, ret |-> FALSE, log |-> <<>>]
    ELSE LET audio == Get(track, "audioFile") IN
         IF Falsy(audio)
           THEN [td |-> unlink(td, TrackPath(id)), ud |-> ud,
                 ret |-> TRUE, log |-> <<>>]
           ELSE IF Exists(ud, audio)
             THEN [td |-> unlink(td, TrackPath(id)), ud |-> unlink(ud, audio),
                   ret |-> TRUE, log |-> <<>>]
             ELSE [td |-> unlink(td, TrackPath(id)), ud |-> ud,
                   ret |-> TRUE, log |-> <<"Failed to delete audio file for track">>]

saveAudioFile(ud, id, fileName, buffer) ==
  LET safeFileName == id \o extname(fileName)
  IN  [ud |-> writeFile(ud, safeFileName, buffer), ret |-> safeFileName]

\* a deleteAudioFile that clears the reference before it looks at it
deleteAudioFile_AlwaysClears(td, ud, id, now) ==
  LET track == getTrackById(td, id) IN
  IF track = Null \/ Falsy(Get(track, "audioFile"))
    THEN [td |-> updateTrack(td, id, [audioFile |-> Undefined], now).td,
          ud |-> ud, ret |-> FALSE, log |-> <<>>]
    ELSE IF ~Exists(ud, track.audioFile)
      THEN [td |-> td, ud |-> ud, ret |-> FALSE,
            log |-> <<"Failed to delete audio file for track">>]
      ELSE [td  |-> updateTrack(td, id, [audioFile |-> Undefined], now).td,
            ud  |-> unlink(ud, track.audioFile),
            ret |-> TRUE, log |-> <<>>]

deleteAudioFile(td, ud, id, now) ==
  LET track == getTrackById(td, id) IN
  IF track = Null \/ Falsy(Get(track, "audioFile"))
    THEN [td |-> td, ud |-> ud, ret |-> FALSE, log |-> <<>>]
    ELSE IF ~Exists(ud, track.audioFile)
      THEN [td |-> td, ud |-> ud, ret |-> FALSE,
            log |-> <<"Failed to delete audio file for track">>]
      ELSE [td  |-> updateTrack(td, id, [audioFile |-> Undefined], now).td,
            ud  |-> unlink(ud, track.audioFile),
            ret |-> TRUE, log |-> <<>>]

(***************************************************************************)
(* Query: getTracks reads every record, filters, sorts and paginates.      *)
(* An absent query parameter is represented by the falsy value of its      *)
(* type (0, "" or the empty string <<>>), which the code's `||` and `if`   *)
(* treat like an absent one.                                               *)
(***************************************************************************)
UpperCase ==
  <<"A", "B", "C", "D", "E", "F", "G", "H", "I", "J", "K", "L", "M",
    "N", "O", "P", "Q", "R", "S", "T", "U", "V", "W", "X", "Y", "Z">>

LowerCase ==
  <<"a", "b", "c", "d", "e", "f", "g", "h", "i", "j", "k", "l", "m",
    "n", "o", "p", "q", "r", "s", "t", "u", "v", "w", "x", "y", "z">>

IsUpper(c) == \E i \in DOMAIN UpperCase : UpperCase[i] = c

LowerChar(c) ==
  IF IsUpper(c)
    THEN LowerCase[CHOOSE i \in DOMAIN UpperCase : UpperCase[i] = c]
    ELSE c

\* String.prototype.toLowerCase
toLowerCase(s) == [i \in 1..Len(s) |-> LowerChar(s[i])]

\* String.prototype.includes
includes(s, sub) ==
  \E i \in 0..(Len(s) - Len(sub)) : SubSeq(s, i + 1, i + Len(sub)) = sub

\* the primary collation weight of a letter: its place in the alphabet
Letter(c) == CHOOSE i \in DOMAIN LowerCase : LowerCase[i] = LowerChar(c)

RECURSIVE ComparePrimary(_, _)
ComparePrimary(a, b) ==
  IF a = <<>> THEN (IF b = <<>> THEN 0 ELSE -1)
  ELSE IF b = <<>> THEN 1
  ELSE IF Letter(Head(a)) < Letter(Head(b)) THEN -1
  ELSE IF Letter(Head(a)) > Letter(Head(b)) THEN 1
  ELSE ComparePrimary(Tail(a), Tail(b))

RECURSIVE CompareCase(_, _)
CompareCase(a, b) ==
  IF a = <<>> \/ b = <<>> THEN 0
  ELSE IF ~IsUpper(Head(a)) /\ IsUpper(Head(b)) THEN -1
  ELSE IF IsUpper(Head(a)) /\ ~IsUpper(Head(b)) THEN 1
  ELSE CompareCase(Tail(a), Tail(b))

\* String.prototype.localeCompare on strings of letters: alphabetical
\* without regard to case, then lower case before upper case
localeCompare(a, b) ==
  IF ComparePrimary(a, b) # 0 THEN ComparePrimary(a, b) ELSE CompareCase(a, b)

\* v || d
Or(v, d) == IF v = 0 THEN d ELSE v

\* Array.prototype.slice(start, end)
slice(s, start, end) ==
  LET n    == Len(s)
      from == IF start < 0 THEN (IF n + start < 0 THEN 0 ELSE n + start)
              ELSE (IF start > n THEN n ELSE start)
      to   == IF end < 0 THEN (IF n + end < 0 THEN 0 ELSE n + end)
              ELSE (IF end > n THEN n ELSE end)
  IN  SubSeq(s, from + 1, to)

\* Math.ceil(a / b) for integers a and b, b # 0
MathCeil(a, b) == IF b > 0 THEN -((-a) \div b) ELSE -(a \div (-b))

\* fs.readdir: the names of the directory in the order the file system
\* lists them, here the order of the creation times the names carry
readdir(dir) ==
  SelectSeq([t \in 1..MaxListed |-> TrackPath(<<ToString(t)>>)],
            LAMBDA n : n \in DOMAIN dir)

endsWith(file, suffix) == Len(file) > 0 /\ file[Len(file)] = suffix

\* a comparator that sorts in ascending order whatever the order asked for
compare_IgnoresOrder(a, b, params) ==
  IF params.sort # ""
    THEN IF params.sort = "createdAt"
           THEN a.createdAt - b.createdAt
           ELSE LET valueA == IF Falsy(Get(a, params.sort)) THEN <<>> ELSE a[params.sort]
                    valueB == IF Falsy(Get(b, params.sort)) THEN <<>> ELSE b[params.sort]
                IN  localeCompare(valueA, valueB)
    ELSE b.createdAt - a.createdAt

\* a comparator whose default honours the order asked for
compare_DefaultHonoursOrder(a, b, params) ==
  IF params.sort # ""
    THEN IF params.sort = "createdAt"
           THEN IF params.order = "desc"
                  THEN b.createdAt - a.createdAt
                  ELSE a.createdAt - b.createdAt
           ELSE LET valueA == IF Falsy(Get(a, params.sort)) THEN <<>> ELSE a[params.sort]
                    valueB == IF Falsy(Get(b, params.sort)) THEN <<>> ELSE b[params.sort]
                IN  IF params.order = "desc"
                      THEN localeCompare(valueB, valueA)
                      ELSE localeCompare(valueA, valueB)
    ELSE IF params.order = "desc"
           THEN b.createdAt - a.createdAt
           ELSE a.createdAt - b.createdAt

\* the comparator handed to tracks.sort
compare(a, b, params) ==
  IF params.sort # ""
    THEN IF params.sort = "createdAt"
           THEN IF params.order = "desc"
                  THEN b.createdAt - a.createdAt
                  ELSE a.createdAt - b.createdAt
           ELSE LET valueA == IF Falsy(Get(a, params.sort)) THEN <<>> ELSE a[params.sort]
                    valueB == IF Falsy(Get(b, params.sort)) THEN <<>> ELSE b[params.sort]
                IN  IF params.order = "desc"
                      THEN localeCompare(valueB, valueA)
                      ELSE localeCompare(valueA, valueB)
    ELSE b.createdAt - a.createdAt

\* Array.prototype.sort with that comparator; the sort is stable
RECURSIVE sort(_, _)
sort(tracks, params) ==
  IF tracks = <<>> THEN <<>>
  ELSE LET n      == Len(tracks)
           x      == tracks[n]
           sorted == sort(SubSeq(tracks, 1, n - 1), params)
           k      == Cardinality({i \in 1..(n - 1) : compare(sorted[i], x, params) <= 0})
       IN  SubSeq(sorted, 1, k) \o <<x>> \o SubSeq(sorted, k + 1, n - 1)

\* a filter chain whose genre filter starts again from all the records
filterAndSort_GenreDropsSearch(td, params) ==
  LET files   == SelectSeq(readdir(td), LAMBDA file : endsWith(file, ".json"))
      tracks  == [i \in 1..Len(files) |-> JSONparse(td[files[i]])]
      genre   == IF params.genre # ""
                   THEN SelectSeq(tracks, LAMBDA track :
                          \E i \in DOMAIN track.genres : track.genres[i] = params.genre)
                   ELSE tracks
      artist  == IF ~Falsy(params.artist)
                   THEN SelectSeq(genre, LAMBDA track :
                          includes(toLowerCase(track.artist), toLowerCase(params.artist)))
                   ELSE genre
  IN  sort(artist, params)

\* the array `tracks` of getTracks before pagination
filterAndSort(td, params) ==
  LET files   == SelectSeq(readdir(td), LAMBDA file : endsWith(file, ".json"))
      tracks  == [i \in 1..Len(files) |-> JSONparse(td[files[i]])]
      search  == IF ~Falsy(params.search)
                   THEN SelectSeq(tracks, LAMBDA track :
                          \/ includes(toLowerCase(track.title), toLowerCase(params.search))
                          \/ includes(toLowerCase(track.artist), toLowerCase(params.search))
                          \/ /\ ~Falsy(Get(track, "album"))
                             /\ includes(toLowerCase(track.album), toLowerCase(params.search)))
                   ELSE tracks
      genre   == IF params.genre # ""
                   THEN SelectSeq(search, LAMBDA track :
                          \E i \in DOMAIN track.genres : track.genres[i] = params.genre)
                   ELSE search
      artist  == IF ~Falsy(params.artist)
                   THEN SelectSeq(genre, LAMBDA track :
                          includes(toLowerCase(track.artist), toLowerCase(params.artist)))
                   ELSE genre
  IN  sort(artist, params)

\* a getTracks whose first page starts after the first limit records
getTracks_SkipsFirstPage(td, params) ==
  LET tracks == filterAndSort(td, params)
      page   == Or(params.page, 1)
      limit  == Or(params.limit, DefaultLimit)
      start  == page * limit
      end    == start + limit
  IN  [tracks |-> slice(tracks, start, end), total |-> Len(tracks)]

\* an unparsable record file throws inside the try: the catch returns the
\* empty page
getTracks(td, params) ==
  IF \E n \in DOMAIN td : endsWith(n, ".json") /\ td[n] = Garbled
    THEN [tracks |-> <<>>, total |-> 0]
    ELSE LET tracks == filterAndSort(td, params)
             page   == Or(params.page, 1)
             limit  == Or(params.limit, DefaultLimit)
             start  == (page - 1) * limit
             end    == start + limit
         IN  [tracks |-> slice(tracks, start, end), total |-> Len(tracks)]

\* the loop stops at the first file that holds the slug (return) or that
\* does not parse (throw, caught: null)
getTrackBySlug(td, slug) ==
  LET files == SelectSeq(readdir(td), LAMBDA file : endsWith(file, ".json"))
      stops == {i \in 1..Len(files) :
                  \/ td[files[i]] = Garbled
                  \/ Get(JSONparse(td[files[i]]), "slug") = slug}
  IN  IF stops = {} THEN Null
      ELSE LET i == CHOOSE i \in stops : \A j \in stops : i <= j
           IN  IF td[files[i]] = Garbled THEN Null ELSE JSONparse(td[files[i]])

(***************************************************************************)
(* Genres                                                                  *)
(***************************************************************************)
defaultGenres ==
  <<"Rock", "Pop", "Hip Hop", "Jazz", "Classical", "Electronic",
    "R&B", "Country", "Folk", "Reggae", "Metal", "Blues", "Indie">>

\* fs.access rejects exactly when the file is absent; the content written
\* is JSON.stringify(defaultGenres), represented by the array
\* an initializeDb that rewrites the genre file on every start
initializeDb_Resets(gf) == <<defaultGenres>>

\* an initializeDb whose default list lacks its last genre
initializeDb_DropsLast(gf) ==
  IF gf = <<>> THEN <<SubSeq(defaultGenres, 1, Len(defaultGenres) - 1)>> ELSE gf

initializeDb(gf) == IF gf = <<>> THEN <<defaultGenres>> ELSE gf

\* a missing file and an unparsable one both end in the catch
getGenres(gf) ==
  IF gf = <<>> THEN <<>> ELSE IF gf[1] = GarbledList THEN <<>> ELSE gf[1]

(***************************************************************************)
(* HTTP handlers                                                           *)
(***************************************************************************)
allowedMimeTypes == {"audio/mpeg", "audio/wav", "audio/mp3", "audio/x-wav"}

maxSize == 10 * 1024 * 1024

\* data is the multipart file of the request: filename, mimetype and the
\* length of its buffer; the stored content is represented by that length
uploadTrackFile(td, ud, id, data, now) ==
  IF getTrackById(td, id) = Null
    THEN [td |-> td, ud |-> ud, ret |-> [code |-> 404]]
  ELSE IF data.mimetype \notin allowedMimeTypes
    THEN [td |-> td, ud |-> ud, ret |-> [code |-> 400]]
  ELSE IF data.length > maxSize
    THEN [td |-> td, ud |-> ud, ret |-> [code |-> 400]]
  ELSE LET saved == saveAudioFile(ud, id, data.filename, data.length)
           upd   == updateTrack(td, id, [audioFile |-> saved.ret], now)
       IN  [td |-> upd.td, ud |-> saved.ud,
            ret |-> [code |-> 200, body |-> upd.ret]]

getAllTracks(td, query) ==
  LET r     == getTracks(td, query)
      page  == Or(query.page, 1)
      limit == Or(query.limit, DefaultLimit)
  IN  [code |-> 200,
       body |-> [data |-> r.tracks,
                 meta |-> [total |-> r.total, page |-> page, limit |-> limit,
                           totalPages |-> MathCeil(r.total, limit)]]]

(***************************************************************************)
(* Storage faults.  The device is in one of four conditions: "ok";         *)
(* "unreadable", where fs.readFile and fs.readdir reject; "readonly",      *)
(* where fs.writeFile and fs.unlink reject; "full", where fs.writeFile     *)
(* rejects and fs.unlink works.  The operators above are the               *)
(* operations on a device that is "ok"; the operators below add what the   *)
(* try/catch of each operation makes of a rejected call.                   *)
(***************************************************************************)
Disks == {"ok", "unreadable", "readonly", "full"}

ReadFails(d) == d = "unreadable"

WriteFails(d) == d \in {"readonly", "full"}

UnlinkFails(d) == d = "readonly"

\* a getTrackById without the try: a rejected read rejects the lookup
getTrackByIdOn_Propagates(d, td, id) ==
  IF ReadFails(d) \/ (Exists(td, TrackPath(id)) /\ td[TrackPath(id)] = Garbled)
    THEN Thrown
    ELSE getTrackById(td, id)

getTrackByIdOn(d, td, id) == IF ReadFails(d) THEN Null ELSE getTrackById(td, id)

getTrackBySlugOn(d, td, slug) ==
  IF ReadFails(d) THEN Null ELSE getTrackBySlug(td, slug)

getTracksOn(d, td, params) ==
  IF ReadFails(d) THEN [tracks |-> <<>>, total |-> 0] ELSE getTracks(td, params)

getGenresOn(d, gf) == IF ReadFails(d) THEN <<>> ELSE getGenres(gf)

\* the outer catch logs and throws again
initializeDbOn(d, gf) ==
  IF gf = <<>> /\ WriteFails(d)
    THEN [gf |-> gf, ret |-> Thrown, log |-> <<"Failed to initialize database">>]
    ELSE [gf |-> initializeDb(gf), ret |-> Done, log |-> <<>>]

\* the catch of getGenres logs
getGenresFails(d, gf) ==
  ReadFails(d) \/ gf = <<>> \/ gf = <<GarbledList>>

\* createTrack has no try: the rejection of fs.writeFile is its own
createTrackOn(d, td, track, now) ==
  IF WriteFails(d)
    THEN [td |-> td, ret |-> Thrown, log |-> <<>>]
    ELSE [td  |-> createTrack(td, track, now).td,
          ret |-> createTrack(td, track, now).ret, log |-> <<>>]

\* an updateTrack without the try around fs.writeFile
updateTrackOn_Propagates(d, td, id, updates, now) ==
  IF getTrackByIdOn(d, td, id) = Null
    THEN [td |-> td, ret |-> Null, log |-> <<>>]
  ELSE IF WriteFails(d)
    THEN [td |-> td, ret |-> Thrown, log |-> <<>>]
  ELSE [td  |-> updateTrack(td, id, updates, now).td,
        ret |-> updateTrack(td, id, updates, now).ret, log |-> <<>>]

updateTrackOn(d, td, id, updates, now) ==
  IF getTrackByIdOn(d, td, id) = Null
    THEN [td |-> td, ret |-> Null, log |-> <<>>]
  ELSE IF WriteFails(d)
    THEN [td |-> td, ret |-> Null, log |-> <<"Failed to update track">>]
  ELSE [td  |-> updateTrack(td, id, updates, now).td,
        ret |-> updateTrack(td, id, updates, now).ret, log |-> <<>>]

\* the rejected unlink of the record file reaches the outer catch
deleteTrackOn(d, td, ud, id) ==
  IF getTrackByIdOn(d, td, id) = Null
    THEN [td |-> td, ud |-> ud, ret |-> FALSE, log |-> <<>>]
  ELSE IF UnlinkFails(d)
    THEN [td |-> td, ud |-> ud, ret |-> FALSE, log |-> <<"Failed to delete track">>]
  ELSE deleteTrack(td, ud, id)

\* a batch delete that looks every id up in the storage it was called on
deleteMultipleTracks_Snapshot(d, td, ud, ids) ==
  LET ok(i) == deleteTrackOn(d, td, ud, ids[i]).ret
  IN  [td  |-> [n \in {m \in DOMAIN td : \A i \in 1..Len(ids) :
                                            ~(ok(i) /\ m = TrackPath(ids[i]))} |-> td[n]],
       ud  |-> ud,
       ret |-> [success |-> SelectSeq(ids, LAMBDA id : deleteTrackOn(d, td, ud, id).ret),
                failed  |-> SelectSeq(ids, LAMBDA id : ~deleteTrackOn(d, td, ud, id).ret)],
       log |-> <<>>]

\* for (const id of ids): deleteTrack, one id after the other
RECURSIVE deleteMultipleTracks(_, _, _, _)
deleteMultipleTracks(d, td, ud, ids) ==
  IF ids = <<>>
    THEN [td |-> td, ud |-> ud,
          ret |-> [success |-> <<>>, failed |-> <<>>], log |-> <<>>]
    ELSE LET n      == Len(ids)
             before == deleteMultipleTracks(d, td, ud, SubSeq(ids, 1, n - 1))
             last   == deleteTrackOn(d, before.td, before.ud, ids[n])
         IN  [td  |-> last.td,
              ud  |-> last.ud,
              ret |-> IF last.ret
                        THEN [success |-> Append(before.ret.success, ids[n]),
                              failed  |-> before.ret.failed]
                        ELSE [success |-> before.ret.success,
                              failed  |-> Append(before.ret.failed, ids[n])],
              log |-> before.log \o last.log]

\* the rejected unlink of the asset reaches the catch before updateTrack;
\* the rejected write of the inner updateTrack is caught inside updateTrack,
\* whose result deleteAudioFile does not look at
deleteAudioFileOn(d, td, ud, id, now) ==
  IF ReadFails(d)
    THEN [td |-> td, ud |-> ud, ret |-> FALSE, log |-> <<>>]
  ELSE IF UnlinkFails(d) /\ ~Falsy(Get(getTrackById(td, id), "audioFile"))
    THEN [td |-> td, ud |-> ud, ret |-> FALSE,
          log |-> <<"Failed to delete audio file for track">>]
  ELSE IF WriteFails(d) /\ deleteAudioFile(td, ud, id, now).ret
    THEN [td |-> td, ud |-> deleteAudioFile(td, ud, id, now).ud, ret |-> TRUE,
          log |-> <<"Failed to update track">>]
  ELSE deleteAudioFile(td, ud, id, now)

\* the rejection of saveAudioFile reaches the handler's catch: 500
uploadTrackFileOn(d, td, ud, id, data, now) ==
  IF ReadFails(d)
    THEN [td |-> td, ud |-> ud, ret |-> [code |-> 404]]
  ELSE IF WriteFails(d) /\ uploadTrackFile(td, ud, id, data, now).ret.code = 200
    THEN [td |-> td, ud |-> ud, ret |-> [code |-> 500]]
  ELSE uploadTrackFile(td, ud, id, data, now)

(***************************************************************************)
(* Slugs and the handlers that keep them unique                            *)
(***************************************************************************)
\* \s of the regular expressions
IsSpace(c) == c = " "

\* \w of the regular expressions: letters, digits and the underscore
IsWord(c) ==
  \/ \E i \in DOMAIN LowerCase : LowerCase[i] = c \/ UpperCase[i] = c
  \/ c \in {"0", "1", "2", "3", "4", "5", "6", "7", "8", "9", "_"}

\* [\s_-] of the second replace
IsSeparator(c) == IsSpace(c) \/ c \in {"_", "-"}

\* String.prototype.trim
RECURSIVE trim(_)
trim(s) ==
  IF s = <<>> THEN <<>>
  ELSE IF IsSpace(Head(s)) THEN trim(Tail(s))
  ELSE IF IsSpace(s[Len(s)]) THEN trim(SubSeq(s, 1, Len(s) - 1))
  ELSE s

\* replace(/[\s_-]+/g, '-'): every run of separators becomes one hyphen
RECURSIVE hyphenate(_)
hyphenate(s) ==
  IF s = <<>> THEN <<>>
  ELSE IF ~IsSeparator(Head(s)) THEN <<Head(s)>> \o hyphenate(Tail(s))
  ELSE IF Len(s) > 1 /\ IsSeparator(s[2]) THEN hyphenate(Tail(s))
  ELSE <<"-">> \o hyphenate(Tail(s))

\* replace(/^-+|-+$/g, '')
RECURSIVE strip(_)
strip(s) ==
  IF s = <<>> THEN <<>>
  ELSE IF Head(s) = "-" THEN strip(Tail(s))
  ELSE IF s[Len(s)] = "-" THEN strip(SubSeq(s, 1, Len(s) - 1))
  ELSE s

createSlug(text) ==
  strip(hyphenate(SelectSeq(trim(toLowerCase(text)),
                            LAMBDA c : IsWord(c) \/ IsSpace(c) \/ c = "-")))

\* v || '' for a destructuring default
OrEmpty(v) == IF v = Undefined THEN <<>> ELSE v

\* the object addTrack hands to createTrack
addTrackDraft(body) ==
  [title |-> body.title, artist |-> body.artist,
   album |-> OrEmpty(Get(body, "album")),
   genres |-> IF "genres" \in DOMAIN body THEN body.genres ELSE <<>>,
   coverImage |-> OrEmpty(Get(body, "coverImage")),
   slug |-> createSlug(body.title)]

\* POST /api/tracks on device d
addTrack(d, td, body, now) ==
  LET title  == Get(body, "title")
      artist == Get(body, "artist")
      slug   == createSlug(title)
      made   == createTrackOn(d, td, addTrackDraft(body), now)
  IN  IF Falsy(title) \/ Falsy(artist)
        THEN [td |-> td, ret |-> [code |-> 400]]
      ELSE IF getTrackBySlugOn(d, td, slug) # Null
        THEN [td |-> td, ret |-> [code |-> 409]]
      ELSE IF made.ret = Thrown
        THEN [td |-> td, ret |-> [code |-> 500]]
      ELSE [td |-> made.td, ret |-> [code |-> 201, body |-> made.ret]]

\* PUT /api/tracks/:id on device d; updateTrack takes the whole body
updateTrackById(d, td, id, body, now) ==
  LET existingTrack == getTrackByIdOn(d, td, id)
      title         == Get(body, "title")
      retitled      == ~Falsy(title) /\ title # existingTrack.title
      newSlug       == createSlug(title)
      sameSlug      == getTrackBySlugOn(d, td, newSlug)
      updates       == IF retitled THEN Spread(body, [slug |-> newSlug]) ELSE body
      upd           == updateTrackOn(d, td, id, updates, now)
  IN  IF existingTrack = Null
        THEN [td |-> td, ret |-> [code |-> 404]]
      ELSE IF retitled /\ sameSlug # Null /\ sameSlug.id # id
        THEN [td |-> td, ret |-> [code |-> 409]]
      ELSE [td |-> upd.td, ret |-> [code |-> 200, body |-> upd.ret]]

(***************************************************************************)
(* Inputs                                                                  *)
(***************************************************************************)
GhostId == <<"non-existent-id">>

\* the ids createTrack can generate, and one that it never generates
Ids == {<<ToString(t)>> : t \in 1..MaxClock} \cup {GhostId}

\* Omit<Track, 'id' | 'createdAt' | 'updatedAt'>
Drafts ==
  { [title |-> <<"B", "a">>, artist |-> <<"x">>, album |-> <<"M">>,
     genres |-> <<"Rock", "Pop">>, slug |-> <<"b", "a">>,
     coverImage |-> <<"https://example.com/image.jpg">>],
    [title |-> <<"a">>, artist |-> <<"Y">>, album |-> Undefined,
     genres |-> <<"Electronic">>, slug |-> <<"a">>] }

\* a time later than every reading of the clock
FarFuture == MaxClock + 1

\* Partial<Track>
Updates ==
  { [title |-> <<"c">>, genres |-> <<"Jazz", "Blues">>],
    [audioFile |-> <<"ghost", ".mp3">>],
    [id |-> <<"9">>],
    [createdAt |-> FarFuture] }

UploadData ==
  { [filename |-> <<"song", ".mp3">>, mimetype |-> "audio/mpeg", length |-> 1024],
    [filename |-> <<"take", ".wav">>, mimetype |-> "audio/wav", length |-> 2048],
    [filename |-> <<"notes", ".txt">>, mimetype |-> "text/plain", length |-> 16],
    [filename |-> <<"long", ".mp3">>, mimetype |-> "audio/mpeg", length |-> maxSize + 1] }

(***************************************************************************)
(* State machine: the operations are issued one at a time and each runs   *)
(* to completion.                                                          *)
(***************************************************************************)
Init ==
  /\ tracksDir = <<>>
  /\ uploadsDir = <<>>
  /\ genresFile = initializeDb(<<>>)
  /\ disk = "ok"
  /\ tasks = <<>>
  /\ clock = 1
  /\ call = [name |-> "initializeDb", wrote |-> TRUE]
  /\ ret = Null
  /\ log = <<>>
  /\ ops = 0

\* one more operation is issued
Issue == ops < MaxOps /\ ops' = ops + 1

\* the wall clock advances between operations
Tick ==
  /\ clock < MaxClock
  /\ clock' = clock + 1
  /\ call' = [name |-> "tick"]
  /\ ret' = Null
  /\ log' = <<>>
  /\ UNCHANGED <<tracksDir, uploadsDir, genresFile, disk, tasks, ops>>

CreateTrack(track) ==
  LET r == createTrackOn(disk, tracksDir, track, clock) IN
  /\ Issue
  /\ tracksDir' = r.td
  /\ call' = [name |-> "createTrack", arg |-> track]
  /\ ret' = r.ret
  /\ log' = r.log
  /\ UNCHANGED <<uploadsDir, genresFile, disk, tasks, clock>>

UpdateTrack(id, updates) ==
  LET r == updateTrackOn(disk, tracksDir, id, updates, clock) IN
  /\ Issue
  /\ tracksDir' = r.td
  /\ call' = [name |-> "updateTrack", id |-> id, arg |-> updates]
  /\ ret' = r.ret
  /\ log' = r.log
  /\ UNCHANGED <<uploadsDir, genresFile, disk, tasks, clock>>

DeleteTrack(id) ==
  LET r == deleteTrackOn(disk, tracksDir, uploadsDir, id) IN
  /\ Issue
  /\ tracksDir' = r.td
  /\ uploadsDir' = r.ud
  /\ call' = [name |-> "deleteTrack", id |-> id]
  /\ ret' = r.ret
  /\ log' = r.log
  /\ UNCHANGED <<genresFile, disk, tasks, clock>>

DeleteMultipleTracks(ids) ==
  LET r == deleteMultipleTracks(disk, tracksDir, uploadsDir, ids) IN
  /\ Issue
  /\ tracksDir' = r.td
  /\ uploadsDir' = r.ud
  /\ call' = [name |-> "deleteMultipleTracks", arg |-> ids]
  /\ ret' = r.ret
  /\ log' = r.log
  /\ UNCHANGED <<genresFile, disk, tasks, clock>>

DeleteAudioFile(id) ==
  LET r == deleteAudioFileOn(disk, tracksDir, uploadsDir, id, clock) IN
  /\ Issue
  /\ tracksDir' = r.td
  /\ uploadsDir' = r.ud
  /\ call' = [name |-> "deleteAudioFile", id |-> id]
  /\ ret' = r.ret
  /\ log' = r.log
  /\ UNCHANGED <<genresFile, disk, tasks, clock>>

UploadTrackFile(id, data) ==
  LET r == uploadTrackFileOn(disk, tracksDir, uploadsDir, id, data, clock) IN
  /\ Issue
  /\ tracksDir' = r.td
  /\ uploadsDir' = r.ud
  /\ call' = [name |-> "uploadTrackFile", id |-> id, arg |-> data]
  /\ ret' = r.ret
  /\ log' = <<>>
  /\ UNCHANGED <<genresFile, disk, tasks, clock>>

InitializeDb ==
  LET r == initializeDbOn(disk, genresFile) IN
  /\ Issue
  /\ genresFile' = r.gf
  /\ call' = [name |-> "initializeDb", wrote |-> genresFile' # genresFile]
  /\ ret' = r.ret
  /\ log' = r.log
  /\ UNCHANGED <<tracksDir, uploadsDir, disk, tasks, clock>>

GetGenres ==
  /\ Issue
  /\ call' = [name |-> "getGenres"]
  /\ ret' = getGenresOn(disk, genresFile)
  /\ log' = IF getGenresFails(disk, genresFile)
              THEN <<"Failed to read genres">> ELSE <<>>
  /\ UNCHANGED <<tracksDir, uploadsDir, genresFile, disk, tasks, clock>>

GetTrackById(id) ==
  /\ Issue
  /\ call' = [name |-> "getTrackById", id |-> id]
  /\ ret' = getTrackByIdOn(disk, tracksDir, id)
  /\ log' = <<>>
  /\ UNCHANGED <<tracksDir, uploadsDir, genresFile, disk, tasks, clock>>

GetTrackBySlug(slug) ==
  /\ Issue
  /\ call' = [name |-> "getTrackBySlug", arg |-> slug]
  /\ ret' = getTrackBySlugOn(disk, tracksDir, slug)
  /\ log' = <<>>
  /\ UNCHANGED <<tracksDir, uploadsDir, genresFile, disk, tasks, clock>>

GetTracks(params) ==
  /\ Issue
  /\ call' = [name |-> "getTracks", arg |-> params]
  /\ ret' = getTracksOn(disk, tracksDir, params)
  /\ log' = <<>>
  /\ UNCHANGED <<tracksDir, uploadsDir, genresFile, disk, tasks, clock>>

Next ==
  \/ Tick
  \/ \E track \in Drafts : CreateTrack(track)
  \/ \E id \in Ids, updates \in Updates : UpdateTrack(id, updates)
  \/ \E id \in Ids : DeleteTrack(id)
  \/ \E id \in Ids : DeleteAudioFile(id)
  \/ \E id \in Ids, data \in UploadData : UploadTrackFile(id, data)

Spec == Init /\ [][Next]_vars

(***************************************************************************)
(* The list endpoint on a fixed store.  The store is what createTrack      *)
(* leaves after it was called at the times 1..n with n drafts; the request *)
(* is in flight at first and GetAllTracks serves it.                       *)
(***************************************************************************)
Pending == [pending |-> TRUE]

ListDrafts ==
  { [title |-> <<"b">>, artist |-> <<"x">>, album |-> <<"M">>,
     genres |-> <<"Rock">>, slug |-> <<"b">>],
    [title |-> <<"a">>, artist |-> <<"Y">>, album |-> Undefined,
     genres |-> <<"Rock", "Pop">>, slug |-> <<"a">>],
    [title |-> <<"c">>, artist |-> <<"a", "y">>, album |-> <<"k">>,
     genres |-> <<"Electronic">>, slug |-> <<"c">>] }

RECURSIVE Seeded(_, _)
Seeded(drafts, n) ==
  IF n = 0 THEN <<>> ELSE createTrack(Seeded(drafts, n - 1), drafts[n], n).td

Stores ==
  UNION {{Seeded(drafts, n) : drafts \in [1..n -> ListDrafts]} : n \in 0..MaxTracks}

\* ListTracksQuery: page and limit are of type number with no minimum, so
\* the endpoint accepts negative values; 0 and "" stand for an absent
\* parameter
Queries ==
  [page : -1..3, limit : -1..2, sort : {"", "title", "album"},
   order : {"", "asc", "desc"}, search : {<<>>, <<"A">>}, genre : {"", "Rock"},
   artist : {<<>>, <<"y">>}]

InitList ==
  /\ tracksDir \in Stores
  /\ uploadsDir = <<>>
  /\ genresFile = initializeDb(<<>>)
  /\ disk = "ok"
  /\ tasks = <<>>
  /\ clock = MaxTracks + 1
  /\ call \in {[name |-> "getAllTracks", arg |-> query] : query \in Queries}
  /\ ret = Pending
  /\ log = <<>>
  /\ ops = 0

GetAllTracks ==
  /\ call.name = "getAllTracks"
  /\ ret = Pending
  /\ ret' = getAllTracks(tracksDir, call.arg)
  /\ UNCHANGED <<tracksDir, uploadsDir, genresFile, disk, tasks, clock, call, log, ops>>

NextList == GetAllTracks

SpecList == InitList /\ [][NextList]_vars

(***************************************************************************)
(* One operation on a storage the environment has acted on.  The storage   *)
(* is what createTrack left at the times 1..n, possibly with one record    *)
(* file garbled, with an asset attached to the first record, or with the   *)
(* second record updated to name the asset of the first; the genre         *)
(* file is absent, as written by initializeDb, edited by hand or garbled;  *)
(* the device is in any condition.  The operation is the last one of the   *)
(* budget.                                                                 *)
(***************************************************************************)
EnvStores == UNION {{Seeded(drafts, n) : drafts \in [1..n -> Drafts]} : n \in 0..MaxClock}

Song == CHOOSE data \in UploadData : data.filename = <<"song", ".mp3">>

EnvStorages ==
  {[td |-> td, ud |-> <<>>] : td \in EnvStores}
    \cup {[td |-> writeFile(td, n, Garbled), ud |-> <<>>] :
             n \in {TrackPath(<<ToString(t)>>) : t \in 1..MaxClock}, td \in EnvStores \ {<<>>}}
    \cup {[td |-> uploadTrackFile(td, <<>>, <<"1">>, data, MaxClock).td,
           ud |-> uploadTrackFile(td, <<>>, <<"1">>, data, MaxClock).ud] :
             data \in UploadData, td \in EnvStores \ {<<>>}}
    \cup {[td |-> updateTrack(uploadTrackFile(td, <<>>, <<"1">>, Song, MaxClock).td,
                             <<"2">>, [audioFile |-> <<"1", ".mp3">>], MaxClock).td,
           ud |-> uploadTrackFile(td, <<>>, <<"1">>, Song, MaxClock).ud] :
             td \in EnvStores \ {<<>>}}

EnvGenres == {<<>>, <<defaultGenres>>, << <<"Rock", "Ska">> >>, <<GarbledList>>}

Slugs == {d.slug : d \in Drafts} \cup {<<"none">>}

\* deleteMultipleTracks(ids: string[])
Batches == UNION {[1..n -> Ids] : n \in 0..MaxBatch}

\* getTracks(params: QueryParams = {})
NoParams ==
  [page |-> 0, limit |-> 0, sort |-> "", order |-> "", search |-> <<>>,
   genre |-> "", artist |-> <<>>]

EnvParams == {NoParams, [NoParams EXCEPT !.genre = "Electronic", !.limit = 2]}

InitEnv ==
  /\ \E storage \in EnvStorages : tracksDir = storage.td /\ uploadsDir = storage.ud
  /\ genresFile \in EnvGenres
  /\ disk \in Disks
  /\ tasks = <<>>
  /\ clock = MaxClock
  /\ call = [name |-> "environment"]
  /\ ret = Null
  /\ log = <<>>
  /\ ops = MaxOps - 1

NextEnv ==
  \/ InitializeDb
  \/ GetGenres
  \/ \E id \in Ids : GetTrackById(id)
  \/ \E slug \in Slugs : GetTrackBySlug(slug)
  \/ \E params \in EnvParams : GetTracks(params)
  \/ \E track \in Drafts : CreateTrack(track)
  \/ \E id \in Ids, updates \in Updates : UpdateTrack(id, updates)
  \/ \E id \in Ids : DeleteTrack(id)
  \/ \E ids \in Batches : DeleteMultipleTracks(ids)
  \/ \E id \in Ids : DeleteAudioFile(id)
  \/ \E id \in Ids, data \in UploadData : UploadTrackFile(id, data)

SpecEnv == InitEnv /\ [][NextEnv]_vars

(***************************************************************************)
(* The HTTP requests that create and retitle tracks, one at a time, on an  *)
(* empty store.                                                            *)
(***************************************************************************)
HttpTitles == {<<"a">>, <<"A", "!">>, <<"b", " ", "c">>}

\* CreateTrackDto
CreateBodies ==
  {[title |-> t, artist |-> <<"x">>, genres |-> <<"Rock">>] : t \in HttpTitles}
    \cup {[title |-> <<>>, artist |-> <<"x">>, genres |-> <<>>]}

\* the bodies the PUT schema lets through: the members of UpdateTrackDto
\* and, as the schema does not close the object, any other member
UpdateBodies ==
  {[title |-> t] : t \in HttpTitles} \cup {[artist |-> <<"z">>], [slug |-> <<"a">>]}

AddTrack(body) ==
  LET r == addTrack(disk, tracksDir, body, clock) IN
  /\ Issue
  /\ tracksDir' = r.td
  /\ call' = [name |-> "addTrack", arg |-> body]
  /\ ret' = r.ret
  /\ log' = <<>>
  /\ UNCHANGED <<uploadsDir, genresFile, disk, tasks, clock>>

UpdateTrackById(id, body) ==
  LET r == updateTrackById(disk, tracksDir, id, body, clock) IN
  /\ Issue
  /\ tracksDir' = r.td
  /\ call' = [name |-> "updateTrackById", id |-> id, arg |-> body]
  /\ ret' = r.ret
  /\ log' = <<>>
  /\ UNCHANGED <<uploadsDir, genresFile, disk, tasks, clock>>

NextHttp ==
  \/ Tick
  \/ \E body \in CreateBodies : AddTrack(body)
  \/ \E id \in Ids, body \in UpdateBodies : UpdateTrackById(id, body)

SpecHttp == Init /\ [][NextHttp]_vars

(***************************************************************************)
(* Overlapping calls.  A call in flight is a task: the operation, its      *)
(* arguments, the place it has reached (pc), the record it has read        *)
(* (local) and its result.  Every await of the code is a place where the   *)
(* other task may run; a single fs call is one step.  The storage at the   *)
(* start is empty, or holds record 1, with or without its asset.           *)
(***************************************************************************)
Task(name, id, arg) ==
  [name |-> name, id |-> id, arg |-> arg, pc |-> "start", local |-> Null,
   ret |-> Pending]

Return(task, value) == [task EXCEPT !.pc = "done", !.ret = value]

Goto(task, place) == [task EXCEPT !.pc = place]

\* updateTrack up to the await of getTrackById
updateTrackRead(task, td) ==
  LET track == getTrackById(td, task.id)
  IN  IF track = Null THEN Return(task, Null)
      ELSE [Goto(task, "write") EXCEPT !.local = track]

\* an updateTrack that writes only while the record file is still there
updateTrackWrite_IfPresent(task, td, now) ==
  LET updatedTrack == Spread(Spread(task.local, task.arg), [updatedAt |-> now])
  IN  IF Exists(td, TrackPath(task.id))
        THEN [td   |-> writeFile(td, TrackPath(task.id), JSONstringify(updatedTrack)),
              task |-> Return(task, updatedTrack)]
        ELSE [td |-> td, task |-> Return(task, Null)]

\* updateTrack from the merge to the await of fs.writeFile
updateTrackWrite(task, td, now) ==
  LET updatedTrack == Spread(Spread(task.local, task.arg), [updatedAt |-> now])
  IN  [td   |-> writeFile(td, TrackPath(task.id), JSONstringify(updatedTrack)),
       task |-> Return(task, updatedTrack)]

\* a deleteTrack that removes the asset before the record
deleteTrackRead_AssetFirst(task, td) ==
  LET track == getTrackById(td, task.id)
  IN  IF track = Null THEN Return(task, FALSE)
      ELSE IF ~Falsy(Get(track, "audioFile"))
        THEN [Goto(task, "unlinkAsset") EXCEPT !.local = track]
        ELSE [Goto(task, "unlinkRecord") EXCEPT !.local = track]

\* deleteTrack up to the await of getTrackById
deleteTrackRead(task, td) ==
  LET track == getTrackById(td, task.id)
  IN  IF track = Null THEN Return(task, FALSE)
      ELSE [Goto(task, "unlinkRecord") EXCEPT !.local = track]

\* fs.unlink of the record file: on a missing file it rejects and the outer
\* catch returns false
deleteTrackUnlinkRecord(task, td) ==
  IF ~Exists(td, TrackPath(task.id))
    THEN [td |-> td, task |-> Return(task, FALSE)]
  ELSE IF ~Falsy(Get(task.local, "audioFile"))
    THEN [td |-> unlink(td, TrackPath(task.id)), task |-> Goto(task, "unlinkAsset")]
  ELSE [td |-> unlink(td, TrackPath(task.id)), task |-> Return(task, TRUE)]

\* fs.unlink of the asset inside the inner try
deleteTrackUnlinkAsset(task, ud) ==
  [ud   |-> IF Exists(ud, task.local.audioFile)
              THEN unlink(ud, task.local.audioFile) ELSE ud,
   task |-> Return(task, TRUE)]

\* deleteAudioFile up to the await of getTrackById
deleteAudioFileRead(task, td) ==
  LET track == getTrackById(td, task.id)
  IN  IF track = Null \/ Falsy(Get(track, "audioFile")) THEN Return(task, FALSE)
      ELSE [Goto(task, "unlinkAsset") EXCEPT !.local = track]

\* a deleteAudioFile that goes on to clear the reference when the removal
\* of the asset fails
deleteAudioFileUnlink_IgnoresFailure(task, ud) ==
  [ud   |-> IF Exists(ud, task.local.audioFile)
              THEN unlink(ud, task.local.audioFile) ELSE ud,
   task |-> Goto(task, "clearRead")]

\* fs.unlink of the asset: on a missing file it rejects and the catch
\* returns false
deleteAudioFileUnlink(task, ud) ==
  IF Exists(ud, task.local.audioFile)
    THEN [ud |-> unlink(ud, task.local.audioFile), task |-> Goto(task, "clearRead")]
    ELSE [ud |-> ud, task |-> Return(task, FALSE)]

\* the getTrackById of the inner updateTrack, whose null result
\* deleteAudioFile does not look at
deleteAudioFileClearRead(task, td) ==
  LET track == getTrackById(td, task.id)
  IN  IF track = Null THEN Return(task, TRUE)
      ELSE [Goto(task, "clearWrite") EXCEPT !.local = track]

\* the fs.writeFile of the inner updateTrack
deleteAudioFileClearWrite(task, td, now) ==
  [td   |-> updateTrackWrite([task EXCEPT !.arg = [audioFile |-> Undefined]], td, now).td,
   task |-> Return(task, TRUE)]

\* addTrack up to the await of getTrackBySlug
addTrackLookup(task, td) ==
  IF Falsy(Get(task.arg, "title")) \/ Falsy(Get(task.arg, "artist"))
    THEN Return(task, [code |-> 400])
  ELSE IF getTrackBySlug(td, createSlug(task.arg.title)) # Null
    THEN Return(task, [code |-> 409])
  ELSE Goto(task, "create")

\* an addTrack that looks the slug up once more before it writes
addTrackCreate_ChecksAgain(task, td, now) ==
  IF getTrackBySlug(td, createSlug(task.arg.title)) # Null
    THEN [td |-> td, task |-> Return(task, [code |-> 409])]
    ELSE [td   |-> createTrack(td, addTrackDraft(task.arg), now).td,
          task |-> Return(task, [code |-> 201,
                                 body |-> createTrack(td, addTrackDraft(task.arg), now).ret])]

\* addTrack from the await of createTrack on
addTrackCreate(task, td, now) ==
  LET made == createTrack(td, addTrackDraft(task.arg), now)
  IN  [td |-> made.td, task |-> Return(task, [code |-> 201, body |-> made.ret])]

\* the calls that overlap
RaceCalls ==
  { Task("updateTrack", <<"1">>, [title |-> <<"c">>]),
    Task("updateTrack", <<"1">>, [artist |-> <<"z">>]),
    Task("deleteTrack", <<"1">>, Null),
    Task("deleteAudioFile", <<"1">>, Null),
    Task("addTrack", <<>>, [title |-> <<"a">>, artist |-> <<"x">>, genres |-> <<"Rock">>]) }

RaceStorages ==
  LET one == createTrack(<<>>, CHOOSE d \in Drafts : d.title = <<"B", "a">>, 1).td
  IN  {[td |-> <<>>, ud |-> <<>>], [td |-> one, ud |-> <<>>],
       [td |-> uploadTrackFile(one, <<>>, <<"1">>, Song, 1).td,
        ud |-> uploadTrackFile(one, <<>>, <<"1">>, Song, 1).ud]}

InitRace ==
  /\ \E storage \in RaceStorages : tracksDir = storage.td /\ uploadsDir = storage.ud
  /\ genresFile = initializeDb(<<>>)
  /\ disk = "ok"
  /\ tasks \in UNION {[1..n -> RaceCalls] : n \in 1..MaxTasks}
  /\ clock = 1
  /\ call = [name |-> "environment"]
  /\ ret = Null
  /\ log = <<>>
  /\ ops = 0

\* task t is the operation name and has reached place pc
At(t, name, pc) == t \in DOMAIN tasks /\ tasks[t].name = name /\ tasks[t].pc = pc

\* task t takes a step that leaves r.task and, where r has them, r.td and r.ud
Run(t, r) ==
  /\ tasks' = [tasks EXCEPT ![t] = r.task]
  /\ tracksDir' = IF "td" \in DOMAIN r THEN r.td ELSE tracksDir
  /\ uploadsDir' = IF "ud" \in DOMAIN r THEN r.ud ELSE uploadsDir
  /\ UNCHANGED <<genresFile, disk, clock, call, ret, log, ops>>

UpdateTrackRead(t) ==
  At(t, "updateTrack", "start") /\ Run(t, [task |-> updateTrackRead(tasks[t], tracksDir)])

UpdateTrackWrite(t) ==
  At(t, "updateTrack", "write") /\ Run(t, updateTrackWrite(tasks[t], tracksDir, clock))

DeleteTrackRead(t) ==
  At(t, "deleteTrack", "start") /\ Run(t, [task |-> deleteTrackRead(tasks[t], tracksDir)])

DeleteTrackUnlinkRecord(t) ==
  At(t, "deleteTrack", "unlinkRecord") /\ Run(t, deleteTrackUnlinkRecord(tasks[t], tracksDir))

DeleteTrackUnlinkAsset(t) ==
  At(t, "deleteTrack", "unlinkAsset") /\ Run(t, deleteTrackUnlinkAsset(tasks[t], uploadsDir))

DeleteAudioFileRead(t) ==
  At(t, "deleteAudioFile", "start")
    /\ Run(t, [task |-> deleteAudioFileRead(tasks[t], tracksDir)])

DeleteAudioFileUnlink(t) ==
  At(t, "deleteAudioFile", "unlinkAsset")
    /\ Run(t, deleteAudioFileUnlink(tasks[t], uploadsDir))

DeleteAudioFileClearRead(t) ==
  At(t, "deleteAudioFile", "clearRead")
    /\ Run(t, [task |-> deleteAudioFileClearRead(tasks[t], tracksDir)])

DeleteAudioFileClearWrite(t) ==
  At(t, "deleteAudioFile", "clearWrite")
    /\ Run(t, deleteAudioFileClearWrite(tasks[t], tracksDir, clock))

AddTrackLookup(t) ==
  At(t, "addTrack", "start") /\ Run(t, [task |-> addTrackLookup(tasks[t], tracksDir)])

AddTrackCreate(t) ==
  At(t, "addTrack", "create") /\ Run(t, addTrackCreate(tasks[t], tracksDir, clock))

NextRace ==
  \/ Tick
  \/ \E t \in 1..MaxTasks : UpdateTrackRead(t)
  \/ \E t \in 1..MaxTasks : UpdateTrackWrite(t)
  \/ \E t \in 1..MaxTasks : DeleteTrackRead(t)
  \/ \E t \in 1..MaxTasks : DeleteTrackUnlinkRecord(t)
  \/ \E t \in 1..MaxTasks : DeleteTrackUnlinkAsset(t)
  \/ \E t \in 1..MaxTasks : DeleteAudioFileRead(t)
  \/ \E t \in 1..MaxTasks : DeleteAudioFileUnlink(t)
  \/ \E t \in 1..MaxTasks : DeleteAudioFileClearRead(t)
  \/ \E t \in 1..MaxTasks : DeleteAudioFileClearWrite(t)
  \/ \E t \in 1..MaxTasks : AddTrackLookup(t)
  \/ \E t \in 1..MaxTasks : AddTrackCreate(t)

SpecRace == InitRace /\ [][NextRace]_vars

(***************************************************************************)
(* Vocabulary of the properties                                            *)
(***************************************************************************)
\* objects a and b agree on member k (a member holding undefined counts as
\* missing, as in a deep equality of the two objects)
SameField(a, b, k) ==
  /\ (k \in Present(a)) = (k \in Present(b))
  /\ (k \in Present(a) => a[k] = b[k])

Equal(a, b) ==
  /\ a # Null
  /\ b # Null
  /\ \A k \in TrackFields : SameField(a, b, k)

\* the record stored for id names no asset
NoAudio(td, id) == Falsy(Get(getTrackById(td, id), "audioFile"))

\* the files of directory dir whose name starts with the token of id
FilesOf(dir, id) == {n \in DOMAIN dir : n[1] = id[1]}

\* the record of id names an asset that saveAudioFile stored for that id
Attached(td, ud, id) ==
  /\ ~NoAudio(td, id)
  /\ Exists(ud, getTrackById(td, id).audioFile)
  /\ getTrackById(td, id).audioFile \in FilesOf(ud, id)

AudioPresent(td, n) == n \in DOMAIN td /\ ~Falsy(Get(td[n], "audioFile"))

(***************************************************************************)
(* C1: createTrack(d) returns a track with every field of d, a generated   *)
(* id and createdAt = updatedAt, and getTrackById of that id right after   *)
(* returns a record equal to the returned one.                             *)
(***************************************************************************)
C1_CreateThenGetById ==
  call.name = "createTrack" =>
    /\ \A k \in DOMAIN call.arg : SameField(ret, call.arg, k)
    /\ "id" \in Present(ret)
    /\ "createdAt" \in Present(ret)
    /\ SameField(ret, [createdAt |-> Get(ret, "updatedAt")], "createdAt")
    /\ Equal(getTrackById(tracksDir, ret.id), ret)

\* a second record was created from the draft whose album is undefined
C1_Witness ==
  /\ call.name = "createTrack"
  /\ call.arg.album = Undefined
  /\ "album" \notin DOMAIN getTrackById(tracksDir, ret.id)
  /\ Cardinality(DOMAIN tracksDir) = 2

(***************************************************************************)
(* C2: deleteTrack(id) of an existing record returns true, and             *)
(* getTrackById(id) right after it returns not-found.                      *)
(***************************************************************************)
C2_DeleteThenGetById ==
  [][ (call'.name = "deleteTrack" /\ getTrackById(tracksDir, call'.id) # Null)
        => (ret' = TRUE /\ getTrackById(tracksDir', call'.id) = Null) ]_vars

\* a record was deleted while another one stays
C2_Witness ==
  /\ call.name = "deleteTrack"
  /\ ret = TRUE
  /\ getTrackById(tracksDir, call.id) = Null
  /\ tracksDir # <<>>

(***************************************************************************)
(* C3: deleteTrack(id) returns false and changes neither directory when    *)
(* no record has that id; when the record exists it returns true and the   *)
(* record file is gone, also when the removal of the asset failed.         *)
(***************************************************************************)
C3_DeleteResult ==
  [][ call'.name = "deleteTrack" =>
        IF getTrackById(tracksDir, call'.id) = Null
          THEN /\ ret' = FALSE
               /\ tracksDir' = tracksDir
               /\ uploadsDir' = uploadsDir
          ELSE /\ ret' = TRUE
               /\ ~Exists(tracksDir', TrackPath(call'.id)) ]_vars

\* a delete that could not remove the asset still returned true
C3_Witness ==
  /\ call.name = "deleteTrack"
  /\ ret = TRUE
  /\ log = <<"Failed to delete audio file for track">>
  /\ ~Exists(tracksDir, TrackPath(call.id))

(***************************************************************************)
(* C4: after one or more assets were attached to a track, deleteTrack of   *)
(* the track leaves no file of that id in the tracks directory and none in *)
(* the uploads directory.                                                  *)
(***************************************************************************)
C4_DeleteRemovesRecordAndAssets ==
  [][ (call'.name = "deleteTrack" /\ Attached(tracksDir, uploadsDir, call'.id))
        => /\ FilesOf(tracksDir', call'.id) = {}
           /\ FilesOf(uploadsDir', call'.id) = {} ]_vars

(***************************************************************************)
(* C5: deleteAudioFile(id) on an id without record, or whose record has no *)
(* audioFile, returns false and leaves the record (updatedAt included) and *)
(* the uploads directory as they were.                                     *)
(***************************************************************************)
C5_DetachWithoutAsset ==
  [][ (call'.name = "deleteAudioFile" /\ NoAudio(tracksDir, call'.id))
        => /\ ret' = FALSE
           /\ tracksDir' = tracksDir
           /\ uploadsDir' = uploadsDir ]_vars

\* the detach was refused on an existing record at a time when a refresh of
\* updatedAt would show, with assets of other tracks in the directory
C5_Witness ==
  /\ call.name = "deleteAudioFile"
  /\ ret = FALSE
  /\ getTrackById(tracksDir, call.id) # Null
  /\ NoAudio(tracksDir, call.id)
  /\ getTrackById(tracksDir, call.id).updatedAt < clock
  /\ uploadsDir # <<>>

(***************************************************************************)
(* C6: updateTrack(id, partial) on an existing record stores and returns   *)
(* the old record with the supplied fields replaced and updatedAt set to   *)
(* the current time, the other fields and the other records kept; on an id *)
(* without record it returns not-found and creates nothing.                *)
(***************************************************************************)
C6_UpdateMerges ==
  [][ call'.name = "updateTrack" =>
        LET id  == call'.id
            u   == call'.arg
            old == getTrackById(tracksDir, id)
            new == getTrackById(tracksDir', id)
        IN  IF old = Null
              THEN ret' = Null /\ tracksDir' = tracksDir
              ELSE /\ Equal(new, ret')
                   /\ \A k \in DOMAIN u \ {"updatedAt"} : SameField(ret', u, k)
                   /\ SameField(ret', [updatedAt |-> clock], "updatedAt")
                   /\ \A k \in TrackFields \ (DOMAIN u \cup {"updatedAt"}) :
                        SameField(ret', old, k)
                   /\ DOMAIN tracksDir' = DOMAIN tracksDir
                   /\ \A n \in DOMAIN tracksDir \ {TrackPath(id)} :
                        tracksDir'[n] = tracksDir[n] ]_vars

\* a title update of a record that kept its artist and album, at a later time
C6_Witness ==
  /\ call.name = "updateTrack"
  /\ ret # Null
  /\ "title" \in DOMAIN call.arg
  /\ ret.title = call.arg.title
  /\ ret.artist = <<"x">>
  /\ Get(ret, "album") = <<"M">>
  /\ ret.updatedAt > ret.createdAt
  /\ Cardinality(DOMAIN tracksDir) = 2

(***************************************************************************)
(* C7: the record stored as <k>.json has id k in every reachable state,    *)
(* and no update, attach or detach changes the id of a record.             *)
(***************************************************************************)
C7_IdIsFileKey ==
  /\ [](\A n \in DOMAIN tracksDir : TrackPath(tracksDir[n].id) = n)
  /\ [][ call'.name \in {"updateTrack", "uploadTrackFile", "deleteAudioFile"}
           => \A n \in DOMAIN tracksDir \cap DOMAIN tracksDir' :
                tracksDir'[n].id = tracksDir[n].id ]_vars

(***************************************************************************)
(* C8: every stored record has updatedAt >= createdAt, and createdAt keeps *)
(* the value given at creation.                                            *)
(***************************************************************************)
C8_CreatedAtFixed ==
  /\ [](\A n \in DOMAIN tracksDir :
          tracksDir[n].updatedAt >= tracksDir[n].createdAt)
  /\ [][ call'.name \in {"updateTrack", "uploadTrackFile", "deleteAudioFile"}
           => \A n \in DOMAIN tracksDir \cap DOMAIN tracksDir' :
                tracksDir'[n].createdAt = tracksDir[n].createdAt ]_vars

(***************************************************************************)
(* C9: between operations, every record whose audioFile is present names   *)
(* a file of the uploads directory, and audioFile becomes present only by  *)
(* a successful attach and absent only by a successful detach.             *)
(***************************************************************************)
C9_AudioFileExists ==
  /\ [](\A n \in DOMAIN tracksDir :
          AudioPresent(tracksDir, n) => Exists(uploadsDir, tracksDir[n].audioFile))
  /\ [][ \A n \in DOMAIN tracksDir \cap DOMAIN tracksDir' :
           AudioPresent(tracksDir', n) # AudioPresent(tracksDir, n) =>
             IF AudioPresent(tracksDir', n)
               THEN /\ call'.name = "uploadTrackFile"
                    /\ ret'.code = 200
                    /\ TrackPath(call'.id) = n
               ELSE /\ call'.name = "deleteAudioFile"
                    /\ ret' = TRUE
                    /\ TrackPath(call'.id) = n ]_vars

(***************************************************************************)
(* C10: for a fixed store and query with N matching records and limit L,   *)
(* the list endpoint reports totalPages = ceil(N / L), and its pages       *)
(* 1..totalPages, in order, make up the filtered and sorted sequence.      *)
(***************************************************************************)
\* the least number of pages of size L that hold N records
PagesNeeded(N, L) == CHOOSE k \in 0..N : k * L >= N /\ (k = 0 \/ (k - 1) * L < N)

RECURSIVE PagesFrom(_, _, _)
PagesFrom(query, p, last) ==
  IF p > last THEN <<>>
  ELSE getAllTracks(tracksDir, [query EXCEPT !.page = p]).body.data
         \o PagesFrom(query, p + 1, last)

C10_Pagination ==
  (call.name = "getAllTracks" /\ ret # Pending /\ call.arg.limit >= 0) =>
    LET query == call.arg
        L     == IF query.limit = 0 THEN DefaultLimit ELSE query.limit
        all   == filterAndSort(tracksDir, query)
    IN  /\ ret.body.meta.total = Len(all)
        /\ ret.body.meta.totalPages = PagesNeeded(Len(all), L)
        /\ PagesFrom(query, 1, ret.body.meta.totalPages) = all

\* three records match, sorted by title, limit 2: the second of two pages
\* holds the last record
C10_Witness ==
  /\ call.name = "getAllTracks"
  /\ ret # Pending
  /\ call.arg.sort = "title"
  /\ call.arg.limit = 2
  /\ call.arg.page = 2
  /\ ret.body.meta.total = 3
  /\ ret.body.meta.totalPages = 2
  /\ Len(ret.body.data) = 1

(***************************************************************************)
(* C11: the list holds a stored record exactly when the record satisfies   *)
(* every filter the query supplies: search is found, without regard to     *)
(* case, in the title, the artist or the album; genre is one of the        *)
(* genres; artist is found, without regard to case, in the artist.  The    *)
(* filters come before sorting and pagination: total counts the matching   *)
(* records whatever the page, and a page holds matching records only.      *)
(***************************************************************************)
ContainsIgnoringCase(s, sub) ==
  \E i \in 0..(Len(s) - Len(sub)) :
    \A k \in 1..Len(sub) : LowerChar(s[i + k]) = LowerChar(sub[k])

Matches(track, query) ==
  /\ query.search # <<>> =>
        \E f \in {"title", "artist", "album"} :
          f \in Present(track) /\ ContainsIgnoringCase(track[f], query.search)
  /\ query.genre # "" =>
        \E i \in 1..Len(track.genres) : track.genres[i] = query.genre
  /\ query.artist # <<>> => ContainsIgnoringCase(track.artist, query.artist)

Stored(td) == {JSONparse(td[n]) : n \in DOMAIN td}

\* the whole list of a query: its first page under the default limit
Listing(td, query) ==
  getTracks(td, [query EXCEPT !.page = 0, !.limit = 0]).tracks

C11_Filters ==
  (call.name = "getAllTracks" /\ ret # Pending) =>
    LET query   == call.arg
        listing == Listing(tracksDir, query)
        passing == {t \in Stored(tracksDir) : Matches(t, query)}
    IN  /\ {listing[i] : i \in 1..Len(listing)} = passing
        /\ Len(listing) = Cardinality(passing)
        /\ ret.body.meta.total = Cardinality(passing)
        /\ \A i \in 1..Len(ret.body.data) : ret.body.data[i] \in passing

\* all three filters are supplied; one of three records passes them, and
\* another passes search and artist but not genre
C11_Witness ==
  /\ call.name = "getAllTracks"
  /\ ret # Pending
  /\ call.arg.search # <<>>
  /\ call.arg.genre # ""
  /\ call.arg.artist # <<>>
  /\ Cardinality(DOMAIN tracksDir) = 3
  /\ ret.body.meta.total = 1
  /\ Len(ret.body.data) = 1
  /\ \E t \in Stored(tracksDir) :
        /\ Matches(t, [call.arg EXCEPT !.genre = ""])
        /\ ~Matches(t, call.arg)

(***************************************************************************)
(* C12: with sort = title the list comes in ascending title order under    *)
(* order = asc (titles b, a, c come back as a, b, c), and under            *)
(* order = desc the titles come in the reverse sequence; the records come  *)
(* in the reverse sequence when no two of them have the same title, and    *)
(* records of the same title keep the order of the directory listing in    *)
(* both directions.                                                        *)
(***************************************************************************)
Reverse(s) == [i \in 1..Len(s) |-> s[Len(s) + 1 - i]]

Titles(s) == [i \in 1..Len(s) |-> s[i].title]

ByTitle(query, order) ==
  Listing(tracksDir, [query EXCEPT !.sort = "title", !.order = order])

SortedByTitle(query) ==
  call.name = "getAllTracks" /\ ret # Pending /\ query.sort = "title"

\* records of equal title are in the order of their creation times, which
\* is the order of the directory listing
TiesInListingOrder(s) ==
  \A i, j \in 1..Len(s) :
    (i < j /\ s[i].title = s[j].title) => s[i].createdAt < s[j].createdAt

C12_TitleOrder ==
  SortedByTitle(call.arg) =>
    LET asc  == ByTitle(call.arg, "asc")
        desc == ByTitle(call.arg, "desc")
    IN  /\ \A i \in 1..(Len(asc) - 1) :
              localeCompare(asc[i].title, asc[i + 1].title) <= 0
        /\ Titles(desc) = Reverse(Titles(asc))
        /\ (\A i, j \in 1..Len(asc) : i # j => asc[i].title # asc[j].title)
              => desc = Reverse(asc)
        /\ TiesInListingOrder(asc)
        /\ TiesInListingOrder(desc)
        /\ ByTitle(call.arg, "") = asc

\* the records were stored with the titles b, a, c and the ascending list
\* is the response
C12_Witness ==
  /\ SortedByTitle(call.arg)
  /\ call.arg.order = "asc"
  /\ Titles(Listing(tracksDir, [call.arg EXCEPT !.sort = "", !.order = "desc"]))
       = << <<"c">>, <<"a">>, <<"b">> >>
  /\ Titles(ret.body.data) = << <<"a">>, <<"b">>, <<"c">> >>
  /\ Titles(ByTitle(call.arg, "desc")) = << <<"c">>, <<"b">>, <<"a">> >>

\* the statement without the proviso: the descending list is the reverse of
\* the ascending list
C12_DescIsReverse ==
  SortedByTitle(call.arg) =>
    ByTitle(call.arg, "desc") = Reverse(ByTitle(call.arg, "asc"))

(***************************************************************************)
(* C13: without a sort field the list comes newest first, in descending    *)
(* createdAt order, whatever the value of order.                           *)
(***************************************************************************)
Unsorted(query) ==
  call.name = "getAllTracks" /\ ret # Pending /\ query.sort = ""

C13_DefaultNewestFirst ==
  Unsorted(call.arg) =>
    LET listing == Listing(tracksDir, call.arg)
    IN  /\ \A i \in 1..(Len(listing) - 1) :
              listing[i].createdAt >= listing[i + 1].createdAt
        /\ \A order \in {"", "asc", "desc"} :
              Listing(tracksDir, [call.arg EXCEPT !.order = order]) = listing
        /\ (call.arg.page = 0 /\ call.arg.limit = 0) => ret.body.data = listing

\* order = asc is asked for, no sort field, and of three records the
\* newest is first
C13_Witness ==
  /\ Unsorted(call.arg)
  /\ call.arg.order = "asc"
  /\ Len(ret.body.data) = 3
  /\ ret.body.data[1].createdAt = 3
  /\ ret.body.data[3].createdAt = 1

(***************************************************************************)
(* C14: for every page and limit the list endpoint accepts, the response   *)
(* holds at most limit records, total is the number of records that pass   *)
(* the filters whatever page and limit are, and a page outside             *)
(* 1..ceil(total / limit) gives an empty data array and no error.          *)
(***************************************************************************)
C14_PageBounds ==
  (call.name = "getAllTracks" /\ ret # Pending) =>
    LET query   == call.arg
        limit   == IF query.limit = 0 THEN DefaultLimit ELSE query.limit
        passing == {t \in Stored(tracksDir) : Matches(t, query)}
    IN  /\ ret.code = 200
        /\ Len(ret.body.data) <= limit
        /\ ret.body.meta.total = Cardinality(passing)
        /\ (query.page # 0 /\ query.page \notin 1..MathCeil(Cardinality(passing), limit))
              => ret.body.data = <<>>

(***************************************************************************)
(* C15: deleteMultipleTracks(ids) puts every position of ids in exactly    *)
(* one of success and failed, so the two lengths add up to the length of   *)
(* ids; both lists keep the order of ids; a position succeeds when its id  *)
(* has a record that no earlier position deleted, so an existing id listed *)
(* twice is once in success and once in failed.                            *)
(***************************************************************************)
\* the elements of s at the positions in S, in the order of s
Pick(s, S) ==
  LET idx == SelectSeq([i \in 1..Len(s) |-> i], LAMBDA i : i \in S)
  IN  [k \in 1..Len(idx) |-> s[idx[k]]]

\* the record file of id is there, parses and can be removed
Deletable(id) ==
  /\ disk \in {"ok", "full"}
  /\ TrackPath(id) \in DOMAIN tracksDir
  /\ tracksDir[TrackPath(id)] # Garbled

C15_BatchPartition ==
  [][ call'.name = "deleteMultipleTracks" =>
        LET ids == call'.arg
            won == {i \in 1..Len(ids) :
                      Deletable(ids[i]) /\ \A j \in 1..(i - 1) : ids[j] # ids[i]}
        IN  /\ ret'.success = Pick(ids, won)
            /\ ret'.failed = Pick(ids, (1..Len(ids)) \ won)
            /\ Len(ret'.success) + Len(ret'.failed) = Len(ids) ]_vars

\* the same id twice: the first position succeeded, the second failed
C15_Witness ==
  /\ call.name = "deleteMultipleTracks"
  /\ Len(call.arg) = 2
  /\ call.arg[1] = call.arg[2]
  /\ ret.success = <<call.arg[1]>>
  /\ ret.failed = <<call.arg[1]>>

(***************************************************************************)
(* C16: every createTrack adds one record: its id differs from the id of   *)
(* every record already stored and no stored record is overwritten.        *)
(***************************************************************************)
C16_CreateAddsRecord ==
  [][ call'.name = "createTrack" =>
        /\ TrackPath(ret'.id) \notin DOMAIN tracksDir
        /\ Cardinality(DOMAIN tracksDir') = Cardinality(DOMAIN tracksDir) + 1
        /\ \A n \in DOMAIN tracksDir : tracksDir'[n] = tracksDir[n] ]_vars

(***************************************************************************)
(* C17: after initializeDb has run on a storage without a genre file,      *)
(* getGenres on a readable device returns the 13 default genres in order.  *)
(***************************************************************************)
C17_DefaultGenres ==
  [][ (call'.name = "initializeDb" /\ genresFile = <<>> /\ ret' # Thrown) =>
        /\ call'.wrote
        /\ ~ReadFails(disk') =>
              getGenresOn(disk', genresFile') =
                <<"Rock", "Pop", "Hip Hop", "Jazz", "Classical", "Electronic",
                  "R&B", "Country", "Folk", "Reggae", "Metal", "Blues", "Indie">> ]_vars

\* initializeDb has written the genre file and getGenres reads 13 genres
C17_Witness ==
  /\ call.name = "initializeDb"
  /\ call.wrote
  /\ Len(getGenresOn(disk, genresFile)) = 13
  /\ getGenresOn(disk, genresFile)[13] = "Indie"

(***************************************************************************)
(* C18: the genre file changes only in a step of initializeDb that found   *)
(* it absent; initializeDb on an existing file, and every track and asset  *)
(* operation, leave it as it is.                                           *)
(***************************************************************************)
C18_GenreFileFrame ==
  [][ /\ genresFile' # genresFile => (call'.name = "initializeDb" /\ genresFile = <<>>)
      /\ genresFile # <<>> => genresFile' = genresFile ]_vars

\* initializeDb has run on a genre file edited by hand and left it
C18_Witness ==
  /\ call.name = "initializeDb"
  /\ ~call.wrote
  /\ genresFile = << <<"Rock", "Ska">> >>

(***************************************************************************)
(* C19: getTrackById, getTrackBySlug, getTracks and getGenres never raise  *)
(* and never change the storage; when a read is rejected or a file they    *)
(* read does not parse they return null, the empty page with total 0, and  *)
(* the empty genre list.                                                   *)
(***************************************************************************)
Lookups == {"getTrackById", "getTrackBySlug", "getTracks", "getGenres"}

GarbledFiles == {n \in DOMAIN tracksDir : tracksDir[n] = Garbled}

\* file n comes before file m in the directory listing
ListedBefore(n, m) ==
  \E i, j \in 1..Len(readdir(tracksDir)) :
    i < j /\ readdir(tracksDir)[i] = n /\ readdir(tracksDir)[j] = m

\* the search for slug reads a garbled file: no record listed before it
\* holds the slug
SlugSearchReadsGarbled(slug) ==
  \E g \in GarbledFiles :
    \A n \in DOMAIN tracksDir \ GarbledFiles :
      (ListedBefore(n, g) => tracksDir[n].slug # slug)

C19_LookupsNeverRaise ==
  [][ call'.name \in Lookups =>
        /\ ret' # Thrown
        /\ UNCHANGED <<tracksDir, uploadsDir, genresFile>>
        /\ (call'.name = "getTrackById"
               /\ (disk = "unreadable" \/ TrackPath(call'.id) \in GarbledFiles))
             => ret' = Null
        /\ (call'.name = "getTrackBySlug"
               /\ (disk = "unreadable" \/ SlugSearchReadsGarbled(call'.arg)))
             => ret' = Null
        /\ (call'.name = "getTracks"
               /\ (disk = "unreadable" \/ GarbledFiles # {}))
             => ret' = [tracks |-> <<>>, total |-> 0]
        /\ (call'.name = "getGenres"
               /\ (disk = "unreadable" \/ genresFile = <<GarbledList>>))
             => ret' = <<>> ]_vars

\* getTracks met a garbled file beside a sound record and returned the
\* empty page
C19_Witness ==
  /\ call.name = "getTracks"
  /\ disk = "ok"
  /\ GarbledFiles # {}
  /\ DOMAIN tracksDir \ GarbledFiles # {}
  /\ ret = [tracks |-> <<>>, total |-> 0]

(***************************************************************************)
(* C20: when the device rejects writes, createTrack raises the error,      *)
(* updateTrack returns null and deleteTrack returns false, as the latter   *)
(* two do for an absent record, and the storage stays as it is.            *)
(***************************************************************************)
C20_WriteFailure ==
  [][ disk = "readonly" =>
        /\ call'.name = "createTrack" => ret' = Thrown
        /\ call'.name = "updateTrack" => ret' = Null
        /\ call'.name = "deleteTrack" => ret' = FALSE
        /\ call'.name \in {"createTrack", "updateTrack", "deleteTrack"}
             => UNCHANGED <<tracksDir, uploadsDir>> ]_vars

\* the record is there and the device rejected the write of its update
C20_Witness ==
  /\ call.name = "updateTrack"
  /\ disk = "readonly"
  /\ TrackPath(call.id) \in DOMAIN tracksDir \ GarbledFiles
  /\ ret = Null
  /\ log = <<"Failed to update track">>

(***************************************************************************)
(* C21: with the operations issued one at a time, the state of a track id  *)
(* changes only from absent to active by createTrack, from active to       *)
(* active-with-audio by an attach, from active-with-audio to active by a   *)
(* detach, and from any state to absent by deleteTrack; an attach on       *)
(* active-with-audio stays there and leaves the one asset the record names.*)
(***************************************************************************)
TrackState(td, id) ==
  IF ~Exists(td, TrackPath(id)) THEN "absent"
  ELSE IF AudioPresent(td, TrackPath(id)) THEN "active-with-audio"
  ELSE "active"

C21_StateMachine ==
  [][ \A id \in Ids :
        LET s == TrackState(tracksDir, id)
            t == TrackState(tracksDir', id)
        IN  /\ s # t =>
                  \/ s = "absent" /\ t = "active" /\ call'.name = "createTrack"
                  \/ s = "active" /\ t = "active-with-audio"
                       /\ call'.name = "uploadTrackFile" /\ call'.id = id
                  \/ s = "active-with-audio" /\ t = "active"
                       /\ call'.name = "deleteAudioFile" /\ call'.id = id
                  \/ t = "absent" /\ call'.name = "deleteTrack" /\ call'.id = id
            /\ (s = "active-with-audio" /\ call'.name = "uploadTrackFile"
                   /\ call'.id = id /\ ret'.code = 200) =>
                  /\ t = "active-with-audio"
                  /\ FilesOf(uploadsDir', id) = {getTrackById(tracksDir', id).audioFile} ]_vars

(***************************************************************************)
(* C25: after every attach the uploads directory holds exactly one file    *)
(* of the track, the one the record's audioFile names, whatever the names  *)
(* of the uploaded files were.                                             *)
(***************************************************************************)
C25_OneAssetPerTrack ==
  [][ (call'.name = "uploadTrackFile" /\ ret'.code = 200) =>
        /\ Attached(tracksDir', uploadsDir', call'.id)
        /\ FilesOf(uploadsDir', call'.id) = {ret'.body.audioFile} ]_vars

(***************************************************************************)
(* C27: whenever deleteAudioFile(id) returns true, the record of id has no *)
(* audioFile afterwards and the asset file it named is gone.               *)
(***************************************************************************)
C27_DetachTrueMeansCleared ==
  [][ (call'.name = "deleteAudioFile" /\ ret' = TRUE) =>
        /\ NoAudio(tracksDir', call'.id)
        /\ ~Exists(uploadsDir', getTrackById(tracksDir, call'.id).audioFile) ]_vars

(***************************************************************************)
(* C29: updateTrack, deleteTrack, an attach and deleteAudioFile on id X,   *)
(* and deleteMultipleTracks(ids), leave every record and every asset file  *)
(* of the other track ids as they were.                                    *)
(***************************************************************************)
\* the ids an operation is addressed to
Addressed(c) ==
  IF c.name = "deleteMultipleTracks" THEN {c.arg[i] : i \in 1..Len(c.arg)}
  ELSE {c.id}

C29_OtherTracksUntouched ==
  [][ call'.name \in {"updateTrack", "deleteTrack", "uploadTrackFile",
                      "deleteAudioFile", "deleteMultipleTracks"} =>
        /\ \A n \in DOMAIN tracksDir :
              (\A id \in Addressed(call') : n # TrackPath(id)) =>
                 (n \in DOMAIN tracksDir' /\ tracksDir'[n] = tracksDir[n])
        /\ \A f \in DOMAIN uploadsDir :
              (\A id \in Addressed(call') : f[1] # id[1]) =>
                 (f \in DOMAIN uploadsDir' /\ uploadsDir'[f] = uploadsDir[f]) ]_vars

(***************************************************************************)
(* C23: with the addTrack and updateTrackById requests served one at a     *)
(* time, no two stored records have the same slug; a create whose slug is  *)
(* taken is answered 409 and stores nothing, and an update whose new       *)
(* title has the slug of another record is answered 409 and changes        *)
(* nothing.                                                                *)
(***************************************************************************)
SlugTaken(td, slug, except) ==
  \E n \in DOMAIN td : n # except /\ td[n].slug = slug

C23_SlugsUnique ==
  /\ [](\A n, m \in DOMAIN tracksDir :
          n # m => tracksDir[n].slug # tracksDir[m].slug)
  /\ [][ /\ (call'.name = "addTrack" /\ ~Falsy(call'.arg.title)
               /\ SlugTaken(tracksDir, createSlug(call'.arg.title), <<>>))
             => (ret'.code = 409 /\ tracksDir' = tracksDir)
         /\ (call'.name = "updateTrackById" /\ "title" \in DOMAIN call'.arg
               /\ TrackPath(call'.id) \in DOMAIN tracksDir
               /\ SlugTaken(tracksDir, createSlug(call'.arg.title), TrackPath(call'.id)))
             => (ret'.code = 409 /\ tracksDir' = tracksDir) ]_vars

(***************************************************************************)
(* C22: when updateTrack(id) has read the record and deleteTrack(id) has   *)
(* unlinked it, the write of the update puts the record back: it exists    *)
(* again although the delete reports success, and it still names the       *)
(* asset the update read, which the delete removes.                        *)
(***************************************************************************)
\* task t takes the step of this transition
Steps(t) == t \in DOMAIN tasks /\ tasks'[t].pc # tasks[t].pc

C22_UpdateResurrects ==
  [][ \A u \in DOMAIN tasks :
        (At(u, "updateTrack", "write") /\ Steps(u)
           /\ ~Exists(tracksDir, TrackPath(tasks[u].id))) =>
          /\ Exists(tracksDir', TrackPath(tasks[u].id))
          /\ tasks'[u].ret # Null
          /\ Get(tracksDir'[TrackPath(tasks[u].id)], "audioFile")
               = Get(tasks[u].local, "audioFile") ]_vars

\* both calls are done, the delete returned true, and the record is there
\* and names an asset that is gone
C22_Witness ==
  \E u, d \in DOMAIN tasks :
    /\ At(u, "updateTrack", "done")
    /\ At(d, "deleteTrack", "done")
    /\ tasks[d].ret = TRUE
    /\ tasks[u].ret # Null
    /\ Exists(tracksDir, TrackPath(tasks[d].id))
    /\ ~NoAudio(tracksDir, tasks[d].id)
    /\ ~Exists(uploadsDir, getTrackById(tracksDir, tasks[d].id).audioFile)

(***************************************************************************)
(* C24: an addTrack that has passed the slug lookup creates its record and *)
(* answers 201 whatever was stored since; two overlapping requests with    *)
(* the same title both do, and two records with the same slug are stored.  *)
(***************************************************************************)
C24_LookupThenCreateNotAtomic ==
  [][ \A t \in DOMAIN tasks :
        (At(t, "addTrack", "create") /\ Steps(t)) =>
          /\ tasks'[t].ret.code = 201
          /\ tasks'[t].ret.body.slug = createSlug(tasks[t].arg.title)
          /\ getTrackById(tracksDir', tasks'[t].ret.body.id) # Null
          /\ Equal(getTrackById(tracksDir', tasks'[t].ret.body.id), tasks'[t].ret.body) ]_vars

\* two requests with the same title were answered 201 and two records
\* hold the same slug
C24_Witness ==
  /\ \E t, u \in DOMAIN tasks :
        /\ t # u
        /\ At(t, "addTrack", "done") /\ tasks[t].ret.code = 201
        /\ At(u, "addTrack", "done") /\ tasks[u].ret.code = 201
        /\ tasks[t].arg.title = tasks[u].arg.title
  /\ \E n, m \in DOMAIN tracksDir : n # m /\ tracksDir[n].slug = tracksDir[m].slug

(***************************************************************************)
(* C26: deleteAudioFile(id) on a record with audioFile removes the asset   *)
(* first and clears audioFile afterwards, through the update; when the     *)
(* removal fails because the file is missing it returns false and leaves   *)
(* the record as it is.                                                    *)
(***************************************************************************)
C26_DetachOrder ==
  [][ \A t \in DOMAIN tasks :
        /\ (At(t, "deleteAudioFile", "unlinkAsset") /\ Steps(t)) =>
              /\ tracksDir' = tracksDir
              /\ IF Exists(uploadsDir, tasks[t].local.audioFile)
                    THEN /\ ~Exists(uploadsDir', tasks[t].local.audioFile)
                         /\ tasks'[t].pc = "clearRead"
                    ELSE /\ uploadsDir' = uploadsDir
                         /\ tasks'[t].pc = "done"
                         /\ tasks'[t].ret = FALSE
        /\ (At(t, "deleteAudioFile", "clearWrite") /\ Steps(t)) =>
              /\ FilesOf(uploadsDir, tasks[t].id) = {}
              /\ NoAudio(tracksDir', tasks[t].id)
              /\ tasks'[t].ret = TRUE ]_vars

\* between the two steps: the asset is removed and the record names it
C26_Witness ==
  \E t \in DOMAIN tasks :
    /\ At(t, "deleteAudioFile", "clearRead")
    /\ ~NoAudio(tracksDir, tasks[t].id)
    /\ ~Exists(uploadsDir, getTrackById(tracksDir, tasks[t].id).audioFile)

(***************************************************************************)
(* C28: when two updateTrack calls on the same id that change different    *)
(* fields have both returned a track, the stored record has the changes    *)
(* of both.                                                                *)
(***************************************************************************)
C28_NoLostUpdate ==
  \A t, u \in DOMAIN tasks :
    (/\ t # u
     /\ At(t, "updateTrack", "done") /\ tasks[t].ret # Null
     /\ At(u, "updateTrack", "done") /\ tasks[u].ret # Null
     /\ tasks[t].id = tasks[u].id
     /\ DOMAIN tasks[t].arg \cap DOMAIN tasks[u].arg = {}) =>
      \A k \in DOMAIN tasks[t].arg :
        Get(getTrackById(tracksDir, tasks[t].id), k) = tasks[t].arg[k]

(***************************************************************************)
(* C30: deleteTrack removes the record file before the asset: while only   *)
(* deletes run, in every state, the intermediate ones included, no stored  *)
(* record names a missing asset, and the asset is removed when the record  *)
(* is gone; what a delete cut short leaves is an asset without record.     *)
(***************************************************************************)
OnlyDeletes == \A t \in DOMAIN tasks : tasks[t].name = "deleteTrack"

C30_RecordBeforeAsset ==
  /\ [](OnlyDeletes =>
          \A n \in DOMAIN tracksDir :
            AudioPresent(tracksDir, n) => Exists(uploadsDir, tracksDir[n].audioFile))
  /\ [][ OnlyDeletes =>
           \A t \in DOMAIN tasks :
             (Steps(t) /\ uploadsDir' # uploadsDir) =>
               ~Exists(tracksDir, TrackPath(tasks[t].id)) ]_vars

\* a delete between its two steps: the record is gone, the asset is there
C30_Witness ==
  /\ OnlyDeletes
  /\ \E t \in DOMAIN tasks :
        /\ At(t, "deleteTrack", "unlinkAsset")
        /\ ~Exists(tracksDir, TrackPath(tasks[t].id))
        /\ Exists(uploadsDir, tasks[t].local.audioFile)

====
